---- MODULE Spec2Model ----
(***************************************************************************)
(* Model of bulloak's error aggregate and diagnostic renderer              *)
(* (src/error.rs): the Error enum with its From conversions and Display,   *)
(* the Formatter's Display, and notate.                                    *)
(*                                                                         *)
(* Strings are sequences of one-character strings.  The character U+2022   *)
(* ("bullet") of the divider is written as the one token Bullet.           *)
(***************************************************************************)
EXTENDS Integers, Sequences, FiniteSets, TLC

VARIABLES
    overflowChecks, \* build profile: TRUE = arithmetic overflow panics (debug)
    agg,            \* the Error aggregate being rendered: [tag, errs]
    origin,         \* how agg was built: a From conversion or an enum literal
    pc,             \* position of Error::fmt: "start", "done" (Ok), "panic"
    i,              \* index of the next element of the Semantic loop
    out             \* the characters written to the fmt::Formatter so far

vars == <<overflowChecks, agg, origin, pc, i, out>>

(*************************** bounds of the model ***************************)
MaxTextLen == 2
MaxLine == 3
MaxColumn == 3
MaxErrors == 2

(******************************* characters ********************************)
NL == "\n"
CR == "\r"
Bullet == "U+2022"
Caret == "^"
Space == " "
TextChars == {"a", NL, CR}

DividerWidth == 79

\* usize is modelled 16 bits wide: only the wrap of 0 - 1 to the maximum and
\* the isize::MAX allocation limit are observable in this code.
UsizeBits == 16
UsizeMax == 2 ^ UsizeBits - 1
IsizeMax == 2 ^ (UsizeBits - 1) - 1

Max(a, b) == IF a >= b THEN a ELSE b

(************************** rendering of integers **************************)
Digits == <<"0", "1", "2", "3", "4", "5", "6", "7", "8", "9">>

RECURSIVE ToDecimal(_)
ToDecimal(n) ==
    IF n < 10 THEN <<Digits[n + 1]>>
    ELSE ToDecimal(n \div 10) \o <<Digits[(n % 10) + 1]>>

(***************************** span primitives *****************************)
Position(offset, line, column) ==
    [offset |-> offset, line |-> line, column |-> column]

Span(start, end) == [start |-> start, end |-> end]

(****************************** error kinds ********************************)
\* The Display text of the stage-specific error kinds.
KindDisplay(kind) ==
    CASE kind = "TokenUnexpected" ->
           <<"u","n","e","x","p","e","c","t","e","d"," ","t","o","k","e","n">>
      [] kind = "ConditionEmpty" ->
           <<"f","o","u","n","d"," ","a"," ","c","o","n","d","i","t","i","o","n",
             " ","w","i","t","h"," ","n","o"," ","c","h","i","l","d","r","e","n">>
      [] kind = "TreeEmpty" ->
           <<"f","o","u","n","d"," ","a","n"," ","e","m","p","t","y"," ","t","r","e","e">>
      [] kind = "IdentifierCharInvalid" ->
           <<"i","n","v","a","l","i","d"," ","i","d","e","n","t","i","f","i","e","r">>

\* An atomic stage error: the source text, the error kind, the span.
StageError(text, kind, span) == [text |-> text, kind |-> kind, span |-> span]

(****************************** utils helpers ******************************)
\* utils::repeat_str(s, n): s repeated n times; an allocation of more than
\* isize::MAX bytes panics ("capacity overflow").
RepeatStr(s, n) ==
    IF n * Len(s) > IsizeMax
    THEN [ok |-> FALSE, val |-> <<>>]
    ELSE [ok |-> TRUE,
          val |-> [k \in 1..(n * Len(s)) |-> s[((k - 1) % Len(s)) + 1]]]

\* x - 1 on usize: panics when overflow checks are on, wraps otherwise.
SubOne(x, checks) ==
    IF x >= 1 THEN [ok |-> TRUE, val |-> x - 1]
    ELSE IF checks THEN [ok |-> FALSE, val |-> 0]
    ELSE [ok |-> TRUE, val |-> UsizeMax]

\* Faulty variant of SaturatingSub: the subtraction wraps around.
WrappingSub(a, b) == (a - b + 2 ^ UsizeBits) % (2 ^ UsizeBits)

\* usize::saturating_sub
SaturatingSub(a, b) == IF a >= b THEN a - b ELSE 0

\* str::lines(): split at "\n"; a "\r" right before the "\n" is dropped; the
\* text after the last "\n" is a line only if it is not empty.
RECURSIVE LinesFrom(_, _)
LinesFrom(text, cur) ==
    IF text = <<>> THEN (IF cur = <<>> THEN <<>> ELSE <<cur>>)
    ELSE IF Head(text) = NL
         THEN <<(IF cur # <<>> /\ cur[Len(cur)] = CR
                 THEN SubSeq(cur, 1, Len(cur) - 1) ELSE cur)>>
              \o LinesFrom(Tail(text), <<>>)
         ELSE LinesFrom(Tail(text), Append(cur, Head(text)))

Lines(text) == LinesFrom(text, <<>>)

(******************** Formatter: the diagnostic renderer *******************)
\* From<&parser::Error>, From<&tokenizer::Error>, From<&semantics::Error>
\* for Formatter: bind the error's text, kind and span.
FormatterFrom(err) == [text |-> err.text, err |-> err.kind, span |-> err.span]

\* Faulty variant of Notate: a start line past the end of the text is
\* unwrapped and panics instead of giving the empty frame.
NotateUnwrap(f, checks) ==
    LET idx == SubOne(f.span.start.line, checks)
        lines == Lines(f.text)
    IN  IF ~idx.ok \/ idx.val + 1 > Len(lines)
        THEN [ok |-> FALSE, notated |-> <<>>]
        ELSE LET line == lines[idx.val + 1]
                 pad == SubOne(f.span.start.column, checks)
                 padding == IF pad.ok THEN RepeatStr(<<Space>>, pad.val)
                            ELSE [ok |-> FALSE, val |-> <<>>]
                 note_len == Max(1, SaturatingSub(f.span.end.column,
                                                  f.span.start.column) + 1)
                 carets == RepeatStr(<<Caret>>, note_len)
             IN  IF ~padding.ok \/ ~carets.ok
                 THEN [ok |-> FALSE, notated |-> <<>>]
                 ELSE [ok |-> TRUE,
                       notated |-> line \o <<NL>> \o padding.val
                                   \o carets.val \o <<NL>>]

\* Faulty variant of Notate: the caret run is clipped to the end of the
\* selected line, and runs to the end of the line when the span ends on a
\* later line.
NotateClipped(f, checks) ==
    LET idx == SubOne(f.span.start.line, checks)
        lines == Lines(f.text)
    IN  IF ~idx.ok THEN [ok |-> FALSE, notated |-> <<>>]
        ELSE IF idx.val + 1 > Len(lines) THEN [ok |-> TRUE, notated |-> <<>>]
        ELSE LET line == lines[idx.val + 1]
                 pad == SubOne(f.span.start.column, checks)
                 padding == IF pad.ok THEN RepeatStr(<<Space>>, pad.val)
                            ELSE [ok |-> FALSE, val |-> <<>>]
                 room == IF pad.ok THEN SaturatingSub(Len(line), pad.val) ELSE 0
                 wanted == IF f.span.end.line # f.span.start.line THEN room
                           ELSE SaturatingSub(f.span.end.column,
                                              f.span.start.column) + 1
                 note_len == Max(1, IF wanted > room THEN room ELSE wanted)
                 carets == RepeatStr(<<Caret>>, note_len)
             IN  IF ~padding.ok \/ ~carets.ok
                 THEN [ok |-> FALSE, notated |-> <<>>]
                 ELSE [ok |-> TRUE,
                       notated |-> line \o <<NL>> \o padding.val
                                   \o carets.val \o <<NL>>]

\* notate: the code frame.  [ok, notated]; ok = FALSE is a panic.
Notate(f, checks) ==
    LET idx == SubOne(f.span.start.line, checks)
        lines == Lines(f.text)
    IN  IF ~idx.ok THEN [ok |-> FALSE, notated |-> <<>>]
        ELSE IF idx.val + 1 > Len(lines) THEN [ok |-> TRUE, notated |-> <<>>]
        ELSE LET line == lines[idx.val + 1]
                 pad == SubOne(f.span.start.column, checks)
                 padding == IF pad.ok THEN RepeatStr(<<Space>>, pad.val)
                            ELSE [ok |-> FALSE, val |-> <<>>]
                 note_len == Max(1, SaturatingSub(f.span.end.column,
                                                  f.span.start.column) + 1)
                 carets == RepeatStr(<<Caret>>, note_len)
             IN  IF ~padding.ok \/ ~carets.ok
                 THEN [ok |-> FALSE, notated |-> <<>>]
                 ELSE [ok |-> TRUE,
                       notated |-> line \o <<NL>> \o padding.val
                                   \o carets.val \o <<NL>>]

BulloakError ==
    <<"b","u","l","l","o","a","k"," ","e","r","r","o","r",":"," ">>

Footer(line, column) ==
    <<"-","-","-"," ","(","l","i","n","e"," ">> \o ToDecimal(line)
    \o <<","," ","c","o","l","u","m","n"," ">> \o ToDecimal(column)
    \o <<")"," ","-","-","-">>

\* Faulty variant of FormatterFmt: the degenerate test leaves out
\* `start_offset == 0`.
FormatterFmtEqualOffsets(f, checks) ==
    LET divider == RepeatStr(<<Bullet>>, DividerWidth).val
        w1 == divider \o <<NL>>
        start_offset == f.span.start.offset
        end_offset == f.span.end.offset
    IN  IF start_offset = end_offset
        THEN [ok |-> TRUE, out |-> w1 \o BulloakError \o KindDisplay(f.err)]
        ELSE LET w2 == w1 \o BulloakError \o KindDisplay(f.err) \o <<NL, NL>>
                 notated == Notate(f, checks)
             IN  IF ~notated.ok THEN [ok |-> FALSE, out |-> w2]
                 ELSE [ok |-> TRUE,
                       out |-> w2 \o notated.notated \o <<NL>>
                               \o Footer(f.span.start.line, f.span.start.column)
                               \o <<NL>>]

\* Faulty variant of FormatterFmt: the degenerate header is written with
\* writeln! instead of write!.
FormatterFmtDegenerateLn(f, checks) ==
    LET divider == RepeatStr(<<Bullet>>, DividerWidth).val
        w1 == divider \o <<NL>>
        start_offset == f.span.start.offset
        end_offset == f.span.end.offset
    IN  IF start_offset = end_offset /\ start_offset = 0
        THEN [ok |-> TRUE,
              out |-> w1 \o BulloakError \o KindDisplay(f.err) \o <<NL>>]
        ELSE LET w2 == w1 \o BulloakError \o KindDisplay(f.err) \o <<NL, NL>>
                 notated == Notate(f, checks)
             IN  IF ~notated.ok THEN [ok |-> FALSE, out |-> w2]
                 ELSE [ok |-> TRUE,
                       out |-> w2 \o notated.notated \o <<NL>>
                               \o Footer(f.span.start.line, f.span.start.column)
                               \o <<NL>>]

\* Faulty variant of FormatterFmt: notate is called before the degenerate
\* test, so its decrements run for degenerate spans too.
FormatterFmtEagerNotate(f, checks) ==
    LET divider == RepeatStr(<<Bullet>>, DividerWidth).val
        w1 == divider \o <<NL>>
        start_offset == f.span.start.offset
        end_offset == f.span.end.offset
        notated == Notate(f, checks)
    IN  IF ~notated.ok THEN [ok |-> FALSE, out |-> w1]
        ELSE IF start_offset = end_offset /\ start_offset = 0
        THEN [ok |-> TRUE, out |-> w1 \o BulloakError \o KindDisplay(f.err)]
        ELSE [ok |-> TRUE,
              out |-> w1 \o BulloakError \o KindDisplay(f.err) \o <<NL, NL>>
                      \o notated.notated \o <<NL>>
                      \o Footer(f.span.start.line, f.span.start.column)
                      \o <<NL>>]

\* impl Display for Formatter.  [ok, out]: out is what was written to the
\* fmt::Formatter, ok = FALSE is a panic (out then holds what was written
\* before it).
FormatterFmt(f, checks) ==
    LET divider == RepeatStr(<<Bullet>>, DividerWidth).val
        w1 == divider \o <<NL>>
        start_offset == f.span.start.offset
        end_offset == f.span.end.offset
    IN  IF start_offset = end_offset /\ start_offset = 0
        THEN [ok |-> TRUE, out |-> w1 \o BulloakError \o KindDisplay(f.err)]
        ELSE LET w2 == w1 \o BulloakError \o KindDisplay(f.err) \o <<NL, NL>>
                 notated == Notate(f, checks)
             IN  IF ~notated.ok THEN [ok |-> FALSE, out |-> w2]
                 ELSE [ok |-> TRUE,
                       out |-> w2 \o notated.notated \o <<NL>>
                               \o Footer(f.span.start.line, f.span.start.column)
                               \o <<NL>>]

\* Display of an atomic stage error (tokenizer::Error, parser::Error,
\* semantics::Error): render through a Formatter bound to it.
StageErrorFmt(err, checks) == FormatterFmt(FormatterFrom(err), checks)

(**************************** the Error aggregate **************************)
FromParser(err) == [tag |-> "Parse", errs |-> <<err>>]

FromTokenizer(err) == [tag |-> "Tokenize", errs |-> <<err>>]

FromVec(errors) == [tag |-> "Semantic", errs |-> errors]

Nonexhaustive == [tag |-> "__Nonexhaustive", errs |-> <<>>]

(******************************** inputs ***********************************)
RECURSIVE SeqsUpTo(_, _)
SeqsUpTo(S, n) ==
    IF n = 0 THEN {<<>>}
    ELSE LET shorter == SeqsUpTo(S, n - 1)
         IN  shorter \cup {Append(s, x) : s \in {t \in shorter : Len(t) = n - 1}, x \in S}

Texts == SeqsUpTo(TextChars, MaxTextLen)

Offsets == {<<0, 0>>, <<0, 1>>, <<1, 1>>}

Spans ==
    {Span(Position(o[1], sl, sc), Position(o[2], sl + dl, ec)) :
        o \in Offsets, sl \in 0..MaxLine, dl \in 0..1,
        sc \in 0..MaxColumn, ec \in 0..MaxColumn}

ParserErrors == {StageError(t, "TokenUnexpected", s) : t \in Texts, s \in Spans}

TokenizerErrors == {StageError(t, "IdentifierCharInvalid", s) : t \in Texts, s \in Spans}

(************************* rendering one stage error ***********************)
\* Error::fmt, arm Self::Parse(ref x) => x.fmt(f)
FmtParse ==
    /\ pc = "start"
    /\ agg.tag = "Parse"
    /\ LET r == StageErrorFmt(agg.errs[1], overflowChecks)
       IN  /\ out' = out \o r.out
           /\ pc' = IF r.ok THEN "done" ELSE "panic"
    /\ UNCHANGED <<overflowChecks, agg, origin, i>>

\* Error::fmt, arm Self::Tokenize(ref x) => x.fmt(f)
FmtTokenize ==
    /\ pc = "start"
    /\ agg.tag = "Tokenize"
    /\ LET r == StageErrorFmt(agg.errs[1], overflowChecks)
       IN  /\ out' = out \o r.out
           /\ pc' = IF r.ok THEN "done" ELSE "panic"
    /\ UNCHANGED <<overflowChecks, agg, origin, i>>

FmtInit ==
    /\ overflowChecks \in BOOLEAN
    /\ \/ /\ origin = "From<parser::Error>"
          /\ \E e \in ParserErrors : agg = FromParser(e)
       \/ /\ origin = "From<tokenizer::Error>"
          /\ \E e \in TokenizerErrors : agg = FromTokenizer(e)
    /\ pc = "start"
    /\ i = 1
    /\ out = <<>>

FmtNext == FmtParse \/ FmtTokenize

FmtSpec == FmtInit /\ [][FmtNext]_vars

(************************ rendering the aggregate **************************)
\* The stage errors the aggregate is built from: one two-line text, spans
\* that are degenerate or not, with a start line that is 0, in the text or
\* past its end, and a start column that is 0 or 1.
SampleText == <<"a", NL, "a", "a">>

SampleSpans ==
    {Span(Position(0, sl, sc), Position(eo, sl, sc + 1)) :
        eo \in 0..1, sl \in {0, 1, 3}, sc \in 0..1}

SampleParserErrors ==
    {StageError(SampleText, "TokenUnexpected", s) : s \in SampleSpans}

SampleTokenizerErrors ==
    {StageError(SampleText, "IdentifierCharInvalid", s) : s \in SampleSpans}

SemanticErrors ==
    {StageError(SampleText, k, s) :
        k \in {"ConditionEmpty", "TreeEmpty"}, s \in SampleSpans}

\* Faulty variant of FmtSemanticNext: an error equal to the one before it is
\* skipped.
FmtSemanticNextDedup ==
    /\ pc = "start"
    /\ agg.tag = "Semantic"
    /\ i <= Len(agg.errs)
    /\ LET r == IF i > 1 /\ agg.errs[i] = agg.errs[i - 1]
                THEN [ok |-> TRUE, out |-> <<>>]
                ELSE StageErrorFmt(agg.errs[i], overflowChecks)
       IN  /\ out' = out \o r.out
           /\ pc' = IF r.ok THEN "start" ELSE "panic"
           /\ i' = IF r.ok THEN i + 1 ELSE i
    /\ UNCHANGED <<overflowChecks, agg, origin>>

\* Error::fmt, arm Self::Semantic(ref errors): one iteration of the loop,
\* x.fmt(f)?.  A panic leaves i at the element that panicked.
FmtSemanticNext ==
    /\ pc = "start"
    /\ agg.tag = "Semantic"
    /\ i <= Len(agg.errs)
    /\ LET r == StageErrorFmt(agg.errs[i], overflowChecks)
       IN  /\ out' = out \o r.out
           /\ pc' = IF r.ok THEN "start" ELSE "panic"
           /\ i' = IF r.ok THEN i + 1 ELSE i
    /\ UNCHANGED <<overflowChecks, agg, origin>>

\* Faulty variant of FmtSemanticOk: Ok(()) is returned from inside the loop.
FmtSemanticOkEarly ==
    /\ pc = "start"
    /\ agg.tag = "Semantic"
    /\ pc' = "done"
    /\ UNCHANGED <<overflowChecks, agg, origin, i, out>>

\* Error::fmt, arm Self::Semantic(ref errors): the loop is over, Ok(()).
FmtSemanticOk ==
    /\ pc = "start"
    /\ agg.tag = "Semantic"
    /\ i > Len(agg.errs)
    /\ pc' = "done"
    /\ UNCHANGED <<overflowChecks, agg, origin, i, out>>

\* Faulty variant of FmtNonexhaustive: the catch-all arm returns Ok(()).
FmtNonexhaustiveOk ==
    /\ pc = "start"
    /\ agg.tag \notin {"Parse", "Tokenize", "Semantic"}
    /\ pc' = "done"
    /\ UNCHANGED <<overflowChecks, agg, origin, i, out>>

\* Error::fmt, arm _ => unreachable!()
FmtNonexhaustive ==
    /\ pc = "start"
    /\ agg.tag \notin {"Parse", "Tokenize", "Semantic"}
    /\ pc' = "panic"
    /\ UNCHANGED <<overflowChecks, agg, origin, i, out>>

Init ==
    /\ overflowChecks \in BOOLEAN
    /\ \/ /\ origin = "From<parser::Error>"
          /\ \E e \in SampleParserErrors : agg = FromParser(e)
       \/ /\ origin = "From<tokenizer::Error>"
          /\ \E e \in SampleTokenizerErrors : agg = FromTokenizer(e)
       \/ /\ origin = "From<Vec<semantics::Error>>"
          /\ \E es \in SeqsUpTo(SemanticErrors, MaxErrors) : agg = FromVec(es)
       \/ /\ origin = "literal"
          /\ agg = Nonexhaustive
    /\ pc = "start"
    /\ i = 1
    /\ out = <<>>

Next ==
    \/ FmtParse
    \/ FmtTokenize
    \/ FmtSemanticNext
    \/ FmtSemanticOk
    \/ FmtNonexhaustive

Spec == Init /\ [][Next]_vars

(***************************************************************************)
(* Properties.                                                             *)
(***************************************************************************)
\* c repeated n times
Rep(c, n) == [k \in 1..n |-> c]

\* the number of occurrences of c in s
Count(s, c) == Cardinality({k \in 1..Len(s) : s[k] = c})

\* s cut at its line breaks: the lines that end in a line break, and the
\* text left after the last line break
BreaksOf(s) == {k \in 1..Len(s) : s[k] = NL}

Split(s) ==
    LET br == BreaksOf(s)
        n == Cardinality(br)
        \* at[k]: the position of the k-th line break, at[0] = 0
        at == [k \in 0..n |->
                 IF k = 0 THEN 0
                 ELSE CHOOSE p \in br : Cardinality({q \in br : q < p}) = k - 1]
    IN  [lines |-> [k \in 1..n |-> SubSeq(s, at[k - 1] + 1, at[k] - 1)],
         rest |-> SubSeq(s, at[n] + 1, Len(s))]

Degenerate(span) == span.start.offset = 0 /\ span.end.offset = 0

DividerLine == Rep(Bullet, 79)

HeaderLine(err) == BulloakError \o KindDisplay(err.kind)

\* the one stage error of a Tokenize or Parse aggregate
TheError == agg.errs[1]

Single == agg.tag \in {"Parse", "Tokenize"}

InText(err) == err.span.start.line \in 1..Len(Lines(err.text))

\* C1: a non-degenerate span whose 1-based start line is a line of the text
\* (and whose start column is 1-based) renders to completion, as exactly
\* these lines, each ended by a line break: the divider of 79 bullets, the
\* header, a blank line, the selected line, start.column - 1 spaces and
\* max(1, end.column - start.column + 1) carets, a blank line, the footer.
C1_FullBlock ==
    (Single /\ pc # "start" /\ ~Degenerate(TheError.span) /\ InText(TheError)
       /\ TheError.span.start.column >= 1)
    => LET e == TheError
           sp == Split(out)
       IN  /\ pc = "done"
           /\ sp.rest = <<>>
           /\ sp.lines =
                << DividerLine,
                   HeaderLine(e),
                   <<>>,
                   Lines(e.text)[e.span.start.line],
                   Rep(Space, e.span.start.column - 1)
                     \o Rep(Caret, Max(1, e.span.end.column
                                            - e.span.start.column + 1)),
                   <<>>,
                   Footer(e.span.start.line, e.span.start.column) >>

C1_Witness ==
    /\ Single /\ pc = "done" /\ ~Degenerate(TheError.span) /\ InText(TheError)
    /\ TheError.span.start.column = 2
    /\ TheError.span.end.column = 3
    /\ Count(out, Caret) = 2

\* C2: a degenerate span, whatever its lines, columns and text, renders to
\* the divider line followed by "bulloak error: <kind>" and nothing else: no
\* line break at the end, no source line, no caret, no footer.
C2_DegenerateBlock ==
    (Single /\ pc # "start" /\ Degenerate(TheError.span))
    => LET sp == Split(out)
       IN  /\ pc = "done"
           /\ sp.lines = <<DividerLine>>
           /\ sp.rest = HeaderLine(TheError)
           /\ out[Len(out)] # NL
           /\ Count(out, Caret) = 0
           /\ Count(out, "(") = 0

C2_Witness ==
    /\ Single /\ pc = "done" /\ Degenerate(TheError.span)
    /\ TheError.span.start.line = 0
    /\ TheError.span.start.column = 0
    /\ Len(Lines(TheError.text)) = 2

\* C5: a non-degenerate span whose start line is past the last line of the
\* text renders to completion: notate returns the empty string and the
\* block holds the divider, the header and the footer, with no source line
\* and no caret between header and footer.
C5_PastTheEnd ==
    (Single /\ pc # "start" /\ ~Degenerate(TheError.span)
       /\ TheError.span.start.line > Len(Lines(TheError.text)))
    => LET e == TheError
           sp == Split(out)
       IN  /\ pc = "done"
           /\ Notate(FormatterFrom(e), overflowChecks)
                = [ok |-> TRUE, notated |-> <<>>]
           /\ sp.rest = <<>>
           /\ sp.lines =
                << DividerLine, HeaderLine(e), <<>>, <<>>,
                   Footer(e.span.start.line, e.span.start.column) >>
           /\ Count(out, Caret) = 0

C5_Witness ==
    /\ Single /\ pc = "done" /\ ~Degenerate(TheError.span)
    /\ Len(Lines(TheError.text)) = 1
    /\ TheError.span.start.line = 2
    /\ TheError.span.start.column = 0

\* C8: in notate the caret count is max(1, (end.column saturating-minus
\* start.column) + 1): with end.column < start.column exactly one caret is
\* emitted and nothing underflows; every rendered frame has at least one
\* caret.
C8_CaretCount ==
    (Single /\ pc # "start" /\ ~Degenerate(TheError.span) /\ InText(TheError)
       /\ TheError.span.start.column >= 1)
    => LET sc == TheError.span.start.column
           ec == TheError.span.end.column
           n == Count(out, Caret)
       IN  /\ pc = "done"
           /\ n >= 1
           /\ n = (IF ec < sc THEN 1 ELSE ec - sc + 1)

C8_Witness ==
    /\ Single /\ pc = "done" /\ ~Degenerate(TheError.span) /\ InText(TheError)
    /\ TheError.span.start.column = 3
    /\ TheError.span.end.column = 1
    /\ Count(out, Caret) = 1

\* the code frame as a function of the selected line and the two columns
FrameOf(line, sc, ec) ==
    line \o <<NL>> \o Rep(Space, sc - 1)
         \o Rep(Caret, Max(1, ec - sc + 1)) \o <<NL>>

\* C9: the code frame depends only on the line selected by start.line and
\* on start.column and end.column: end.line and the offsets do not change
\* it, and the caret run is not clipped to the length of the selected line.
C9_FrameInputs ==
    (Single /\ pc = "done" /\ ~Degenerate(TheError.span) /\ InText(TheError)
       /\ TheError.span.start.column >= 1)
    => LET e == TheError
           sc == e.span.start.column
           ec == e.span.end.column
           line == Lines(e.text)[e.span.start.line]
           sp == Split(out)
       IN  /\ sp.lines[4] = line
           /\ Len(sp.lines[5]) = (sc - 1) + Max(1, ec - sc + 1)
           /\ \A el \in 0..(MaxLine + 1), o \in Offsets :
                LET alt == Span(Position(o[1], e.span.start.line, sc),
                                Position(o[2], el, ec))
                IN  Notate([FormatterFrom(e) EXCEPT !.span = alt],
                           overflowChecks).notated
                      = FrameOf(line, sc, ec)

C9_Witness ==
    /\ Single /\ pc = "done" /\ ~Degenerate(TheError.span) /\ InText(TheError)
    /\ TheError.span.start.column = 2
    /\ TheError.span.end.column = 3
    /\ TheError.span.end.line = TheError.span.start.line + 1
    /\ Lines(TheError.text)[TheError.span.start.line] = <<"a">>
    /\ Len(Split(out).lines[5]) = 3

(******************** properties of the aggregate **************************)
RECURSIVE Flatten(_)
Flatten(blocks) ==
    IF blocks = <<>> THEN <<>> ELSE Head(blocks) \o Flatten(Tail(blocks))

\* render(e1), ..., render(eN)
Blocks(errs) ==
    [k \in 1..Len(errs) |-> StageErrorFmt(errs[k], overflowChecks).out]

\* C3: a Semantic aggregate of e1..eN renders to render(e1) ++ ... ++
\* render(eN): N blocks in sequence order, duplicates kept, none dropped or
\* reordered, nothing between them; Tokenize and Parse render the one block
\* of their error.
C3_Concatenation ==
    /\ (agg.tag = "Semantic" /\ pc \in {"start", "done"})
       => /\ out = Flatten(Blocks(SubSeq(agg.errs, 1, i - 1)))
          /\ Count(out, Bullet) = 79 * (i - 1)
          /\ pc = "done" => i = Len(agg.errs) + 1
    /\ (Single /\ pc = "done")
       => /\ out = StageErrorFmt(TheError, overflowChecks).out
          /\ Count(out, Bullet) = 79

C3_Witness ==
    /\ agg.tag = "Semantic" /\ pc = "done"
    /\ Len(agg.errs) = 2
    /\ agg.errs[1] = agg.errs[2]
    /\ ~Degenerate(agg.errs[1].span)
    /\ Count(out, Bullet) = 158

\* C4: every rendered block ends with a line break, for every span, so in
\* the rendering of a Semantic aggregate every divider begins a line.
C4_SelfTerminated ==
    (pc \in {"start", "done"} /\ out # <<>>)
    => /\ out[Len(out)] = NL
       /\ \A k \in 2..Len(out) :
            out[k] = Bullet => out[k - 1] \in {Bullet, NL}

\* C6: rendering the reserved marker variant panics, never returns and
\* writes nothing; no From conversion produces that variant.
C6_Marker ==
    /\ agg.tag = "__Nonexhaustive" => (pc \in {"start", "panic"} /\ out = <<>>)
    /\ origin # "literal" => agg.tag \in {"Parse", "Tokenize", "Semantic"}

C6_Witness == agg = Nonexhaustive /\ pc = "panic" /\ out = <<>>

\* C7 as stated: every aggregate obtained from a From conversion renders to
\* one or more blocks, never to the empty string.
C7_NeverEmpty ==
    (origin # "literal" /\ pc = "done")
    => (out # <<>> /\ Count(out, Bullet) >= 79)

\* C7 as amended: every aggregate obtained from a From conversion that
\* holds at least one stage error renders, when rendering returns, to one
\* or more blocks (it starts with a divider line); From<Vec> of the empty
\* sequence gives Semantic([]) and that renders to the empty string.
C7_NonEmptyRenders ==
    (origin # "literal" /\ pc = "done")
    => IF agg.errs = <<>>
       THEN agg.tag = "Semantic" /\ out = <<>>
       ELSE /\ Len(out) > 80
            /\ SubSeq(out, 1, 80) = DividerLine \o <<NL>>
            /\ Count(out, Bullet) >= 79

C7_Witness ==
    /\ origin = "From<Vec<semantics::Error>>" /\ pc = "done"
    /\ Len(agg.errs) = 1
    /\ Degenerate(agg.errs[1].span)
    /\ out # <<>>

\* the stage error Error::fmt is rendering (or has just rendered)
Current ==
    IF agg.tag = "Semantic"
    THEN agg.errs[IF i <= Len(agg.errs) THEN i ELSE Len(agg.errs)]
    ELSE agg.errs[1]

OneBased(span) == span.start.line >= 1 /\ span.start.column >= 1

\* C10: rendering a Tokenize, Parse or Semantic aggregate panics only on a
\* non-degenerate span whose start line or start column is 0: a degenerate
\* span renders whatever its line and column, and a non-degenerate span
\* with start.line >= 1 and start.column >= 1 renders to completion.
C10_Underflow ==
    /\ (pc = "panic" /\ agg.tag # "__Nonexhaustive")
       => /\ ~Degenerate(Current.span)
          /\ Current.span.start.line = 0 \/ Current.span.start.column = 0
    /\ (Single /\ pc # "start"
          /\ (Degenerate(TheError.span) \/ OneBased(TheError.span)))
       => pc = "done"
    /\ (agg.tag = "Semantic" /\ pc = "start" /\ i <= Len(agg.errs)
          /\ (Degenerate(agg.errs[i].span) \/ OneBased(agg.errs[i].span)))
       => StageErrorFmt(agg.errs[i], overflowChecks).ok

C10_Witness ==
    /\ agg.tag = "Semantic" /\ pc = "done" /\ overflowChecks
    /\ Len(agg.errs) = 2
    /\ Degenerate(agg.errs[1].span)
    /\ agg.errs[1].span.start.line = 0
    /\ agg.errs[1].span.start.column = 0
    /\ ~Degenerate(agg.errs[2].span)
    /\ OneBased(agg.errs[2].span)

====
